---- MODULE Spec2Model ----
(***************************************************************************)
(* Telemetry sensor for transports (proxy/src/telemetry/sensor/transport.rs) *)
(*                                                                         *)
(* A Transport wraps a byte stream, forwards every I/O call to it, counts  *)
(* the bytes moved and sends a TransportOpen event when it is built and a  *)
(* TransportClose event on its first fault or when it is dropped.          *)
(* A Connecting wraps a pending connect and resolves into a Transport.     *)
(*                                                                         *)
(* The wrapped stream, the connector and the callers are the environment:  *)
(* every result they can produce is drawn nondeterministically.            *)
(***************************************************************************)
EXTENDS Integers, Sequences, FiniteSets, TLC

\* ------------------------------------------------------------------ bounds
\* Total number of bytes the wrapped streams move in one run.
MaxBytes == 2
\* Largest byte count a poll_peek reports.
MaxPeek == 1
\* Last tick of the logical monotonic clock.
MaxTime == 1

\* The connections: Connecting futures or directly opened Transports, which
\* share one handle.  A run of Spec makes the first one only; a run of
\* SpecPair makes both and uses them in any interleaving.
Conns == {1, 2}

\* ------------------------------------------------------------------ values
\* Option<Inner>: None, or Some(Inner { handle, opened_at, rx_bytes, tx_bytes }).
\* Every handle is a clone of the one shared handle, whose log is `events`.
None == [some |-> FALSE]
Some(opened_at, rx_bytes, tx_bytes) ==
    [some |-> TRUE, opened_at |-> opened_at, rx_bytes |-> rx_bytes, tx_bytes |-> tx_bytes]

\* io::ErrorKind values the wrapped stream reports.
ErrorKinds == {"WouldBlock", "BrokenPipe"}

\* Results of the wrapped stream: io::Result<T> and Poll<T, io::Error>.
Ok(v) == [tag |-> "Ok", val |-> v, kind |-> "-"]
Ready(v) == [tag |-> "Ready", val |-> v, kind |-> "-"]
NotReady == [tag |-> "NotReady", val |-> 0, kind |-> "-"]
Err(k) == [tag |-> "Err", val |-> 0, kind |-> k]

IsErr(r) == r.tag = "Err"
IsFault(r) == r.tag = "Err" /\ r.kind # "WouldBlock"

\* The context values.  ctx::transport::Client::new(proxy, remote, metadata,
\* tls_status) followed by .into() gives the Client variant of Ctx.
ClientNew(proxy, remote, metadata, tls_status) ==
    [variant |-> "Client", proxy |-> proxy, remote |-> remote,
     metadata |-> metadata, tls_status |-> tls_status]

TlsStatuses == {"tls", "no_tls"}

\* The pre-connect client contexts a Connect can be built with.
ClientCtxs ==
    { ClientNew("outbound", "10.0.0.1:80", "meta_a", "no_tls"),
      ClientNew("outbound", "10.0.0.2:80", "meta_b", "tls") }

\* The context a caller of Transport::open passes for an accepted stream.
ServerCtx == [variant |-> "Server", proxy |-> "inbound", remote |-> "10.0.0.9:5000",
              tls_status |-> "no_tls"]

NoCtx == [variant |-> "none"]

\* event::Event values, tagged with the connection whose Transport sent them.
TransportOpenEv(c, cx) == [type |-> "TransportOpen", id |-> c, ctx |-> cx]
TransportCloseEv(c, cx, duration, clean, rx_bytes, tx_bytes) ==
    [type |-> "TransportClose", id |-> c, ctx |-> cx, duration |-> duration,
     clean |-> clean, rx_bytes |-> rx_bytes, tx_bytes |-> tx_bytes]

\* ------------------------------------------------------------------- state
VARIABLES
    connectCtx,  \* Connect.ctx: the pre-connect client context
    connecting,  \* per connection: the state of its Connecting future
                 \* ("unused": the run never makes this connection)
    tstate,      \* per connection: whether its Transport exists
    inner,       \* per connection: Transport.inner
    ctx,         \* per connection: Transport.ctx
    events,      \* the events handed to handle.send, in order
    now,         \* the monotonic clock (Instant::now())
    last,        \* the most recent call, what the wrapped object returned
                 \* to it and what it returned to its caller
    ioRx, ioTx,  \* bytes the stream reported read / written before the
                 \* TransportClose of its Transport was sent
    faulted,     \* connections one of whose Transport calls returned a fault
    builtAt,     \* per connection: the clock when its Transport was built
    shutAt       \* per connection: the bytes the stream had reported when a
                 \* shutdown last returned Ready with `inner` present (-1: never)

vars == <<connectCtx, connecting, tstate, inner, ctx, events, now, last,
          ioRx, ioTx, faulted, builtAt, shutAt>>

NoCall == [id |-> 0, op |-> "none", res |-> NotReady, ret |-> NotReady, calls |-> 0,
           sent |-> <<>>, before |-> None, after |-> None, retry |-> FALSE,
           peeked |-> FALSE, at |-> 0]

\* A run whose calls are not recorded in `last`.
Unobserved == [NoCall EXCEPT !.op = "unobserved"]

\* The record of a call, where the run records calls.
Observe(call) == IF last.op = "unobserved" THEN last ELSE call

InitWith(ctxs, made) ==
    /\ connectCtx \in ctxs
    /\ connecting = [c \in Conns |-> IF c \in made THEN "none" ELSE "unused"]
    /\ tstate = [c \in Conns |-> "none"]
    /\ inner = [c \in Conns |-> None]
    /\ ctx = [c \in Conns |-> NoCtx]
    /\ events = <<>>
    /\ now = 0
    /\ ioRx = [c \in Conns |-> 0]
    /\ ioTx = [c \in Conns |-> 0]
    /\ faulted = {}
    /\ builtAt = [c \in Conns |-> 0]
    /\ shutAt = [c \in Conns |-> -1]

Init == InitWith(ClientCtxs, {1}) /\ last = NoCall
InitPair == InitWith({ CHOOSE cx \in ClientCtxs : TRUE }, Conns) /\ last = Unobserved

\* ------------------------------------------------------------- environment
\* What the wrapped stream can return from each of its operations.
Errs == { Err(k) : k \in ErrorKinds }
UsizeResults == { Ok(n) : n \in 0..MaxBytes } \cup Errs
UnitResults == { Ok(0) } \cup Errs
PollUnitResults == { Ready(0), NotReady } \cup Errs
PollUsizeResults(max) == { Ready(n) : n \in 0..max } \cup { NotReady } \cup Errs

\* What the underlying connect future can return from poll.
ConnectErrors == {"ConnectionRefused", "TimedOut"}
Connected(tls_status) == [tag |-> "Ready", tls_status |-> tls_status]
ConnectResults ==
    { NotReady } \cup { Err(k) : k \in ConnectErrors }
                 \cup { Connected(t) : t \in TlsStatuses }

RECURSIVE Sum(_, _)
Sum(f, S) == IF S = {} THEN 0 ELSE LET x == CHOOSE y \in S : TRUE IN f[x] + Sum(f, S \ {x})

\* Bytes counted so far over all the wrapped streams.
BytesMoved == Sum(ioRx, Conns) + Sum(ioTx, Conns)

\* The TransportClose of connection c's Transport has been sent.
Closed(c) ==
    \E i \in 1..Len(events) : events[i].type = "TransportClose" /\ events[i].id = c

Started(c) == connecting[c] # "none" \/ tstate[c] # "none"
\* Connections are numbered in the order they are made.
CanStart(c) == ~Started(c) /\ \A d \in Conns : d < c => Started(d)

\* ------------------------------------------------------------- Transport
\* open, had it built the value without sending TransportOpen.
open_silent(c, opened_at, cx) ==
    [inner |-> Some(opened_at, 0, 0), ctx |-> cx, sent |-> <<>>]

\* open, had it sent TransportOpen on the handle and on its clone.
open_twice(c, opened_at, cx) ==
    [inner |-> Some(opened_at, 0, 0), ctx |-> cx,
     sent |-> << TransportOpenEv(c, cx), TransportOpenEv(c, cx) >>]

\* Transport::open: clone the handle, send TransportOpen, build the value.
open(c, opened_at, cx) ==
    [inner |-> Some(opened_at, 0, 0),
     ctx |-> cx,
     sent |-> << TransportOpenEv(c, cx) >>]

\* sense_err, had it read `inner` without taking it.
sense_err_keep(c, res) ==
    [ret |-> res, calls |-> 1, inner |-> inner[c],
     sent |-> IF IsErr(res) /\ res.kind # "WouldBlock" /\ inner[c].some
              THEN << TransportCloseEv(c, ctx[c], now - inner[c].opened_at, FALSE,
                                       inner[c].rx_bytes, inner[c].tx_bytes) >>
              ELSE <<>>]

\* sense_err, had it reported the close as clean.
sense_err_clean(c, res) ==
    IF IsErr(res) /\ res.kind # "WouldBlock" /\ inner[c].some
    THEN [ret |-> res, calls |-> 1, inner |-> None,
          sent |-> << TransportCloseEv(c, ctx[c], now - inner[c].opened_at, TRUE,
                                       inner[c].rx_bytes, inner[c].tx_bytes) >>]
    ELSE [ret |-> res, calls |-> 1, inner |-> inner[c], sent |-> <<>>]

\* sense_err, had it closed on every error, WouldBlock included.
sense_err_any(c, res) ==
    IF IsErr(res) /\ inner[c].some
    THEN [ret |-> res, calls |-> 1, inner |-> None,
          sent |-> << TransportCloseEv(c, ctx[c], now - inner[c].opened_at, FALSE,
                                       inner[c].rx_bytes, inner[c].tx_bytes) >>]
    ELSE [ret |-> res, calls |-> 1, inner |-> inner[c], sent |-> <<>>]

\* sense_err, had it taken `inner` before looking at the kind of the error.
sense_err_take_first(c, res) ==
    IF ~IsErr(res)
    THEN [ret |-> res, calls |-> 1, inner |-> inner[c], sent |-> <<>>]
    ELSE [ret |-> res, calls |-> 1, inner |-> None,
          sent |-> IF res.kind # "WouldBlock" /\ inner[c].some
                   THEN << TransportCloseEv(c, ctx[c], now - inner[c].opened_at, FALSE,
                                            inner[c].rx_bytes, inner[c].tx_bytes) >>
                   ELSE <<>>]

\* Transport::sense_err: run the operation on the wrapped stream once; on an
\* error that is not WouldBlock take `inner` and, if it was there, send
\* TransportClose with clean = false; return what the stream returned.
sense_err(c, res) ==
    IF ~IsErr(res)
    THEN [ret |-> res, calls |-> 1, inner |-> inner[c], sent |-> <<>>]
    ELSE IF res.kind # "WouldBlock" /\ inner[c].some
         THEN [ret |-> res, calls |-> 1, inner |-> None,
               sent |-> << TransportCloseEv(c, ctx[c], now - inner[c].opened_at, FALSE,
                                            inner[c].rx_bytes, inner[c].tx_bytes) >>]
         ELSE [ret |-> res, calls |-> 1, inner |-> inner[c], sent |-> <<>>]

\* drop, had it sent the close whether or not `inner` was still there.
drop_unconditional(c) ==
    [ret |-> Ok(0), calls |-> 0, inner |-> None,
     sent |-> << TransportCloseEv(c, ctx[c],
                                  IF inner[c].some THEN now - inner[c].opened_at ELSE 0,
                                  TRUE,
                                  IF inner[c].some THEN inner[c].rx_bytes ELSE 0,
                                  IF inner[c].some THEN inner[c].tx_bytes ELSE 0) >>]

\* drop, had it measured the duration when the Transport was opened.
drop_early_duration(c) ==
    IF inner[c].some
    THEN [ret |-> Ok(0), calls |-> 0, inner |-> None,
          sent |-> << TransportCloseEv(c, ctx[c], 0, TRUE,
                                       inner[c].rx_bytes, inner[c].tx_bytes) >>]
    ELSE [ret |-> Ok(0), calls |-> 0, inner |-> inner[c], sent |-> <<>>]

\* drop, had it sent the close without the Transport's context.
drop_blank_ctx(c) ==
    IF inner[c].some
    THEN [ret |-> Ok(0), calls |-> 0, inner |-> None,
          sent |-> << TransportCloseEv(c, NoCtx, now - inner[c].opened_at, TRUE,
                                       inner[c].rx_bytes, inner[c].tx_bytes) >>]
    ELSE [ret |-> Ok(0), calls |-> 0, inner |-> inner[c], sent |-> <<>>]

\* Drop for Transport: take `inner` and, if it was there, send TransportClose
\* with clean = true.
drop(c) ==
    IF inner[c].some
    THEN [ret |-> Ok(0), calls |-> 0, inner |-> None,
          sent |-> << TransportCloseEv(c, ctx[c], now - inner[c].opened_at, TRUE,
                                       inner[c].rx_bytes, inner[c].tx_bytes) >>]
    ELSE [ret |-> Ok(0), calls |-> 0, inner |-> inner[c], sent |-> <<>>]

\* read, had it stored the byte count instead of adding it.
read_overwrite(c, res) ==
    LET s == sense_err(c, res) IN
    IF IsErr(s.ret) THEN s
    ELSE [s EXCEPT !.inner = IF @.some THEN [@ EXCEPT !.rx_bytes = s.ret.val] ELSE @,
                   !.ret = Ok(s.ret.val)]

\* read, had it started a fresh `inner` when it found none.
read_revive(c, res) ==
    LET s == sense_err(c, res) IN
    IF IsErr(s.ret) THEN s
    ELSE [s EXCEPT !.inner = IF @.some THEN [@ EXCEPT !.rx_bytes = @ + s.ret.val]
                             ELSE Some(now, s.ret.val, 0),
                   !.ret = Ok(s.ret.val)]

\* io::Read::read: `?` returns the error; else add the bytes to rx_bytes if
\* `inner` is there.
read(c, res) ==
    LET s == sense_err(c, res) IN
    IF IsErr(s.ret) THEN s
    ELSE [s EXCEPT !.inner = IF @.some THEN [@ EXCEPT !.rx_bytes = @ + s.ret.val] ELSE @,
                   !.ret = Ok(s.ret.val)]

\* io::Write::flush
flush(c, res) == sense_err(c, res)

\* write, had it added the bytes to rx_bytes.
write_as_rx(c, res) ==
    LET s == sense_err(c, res) IN
    IF IsErr(s.ret) THEN s
    ELSE [s EXCEPT !.inner = IF @.some THEN [@ EXCEPT !.rx_bytes = @ + s.ret.val] ELSE @,
                   !.ret = Ok(s.ret.val)]

\* io::Write::write
write(c, res) ==
    LET s == sense_err(c, res) IN
    IF IsErr(s.ret) THEN s
    ELSE [s EXCEPT !.inner = IF @.some THEN [@ EXCEPT !.tx_bytes = @ + s.ret.val] ELSE @,
                   !.ret = Ok(s.ret.val)]

\* shutdown, had it closed the accounting when the stream shut down.
shutdown_closes(c, res) ==
    LET s == sense_err(c, res) IN
    IF s.ret.tag = "Ready" /\ s.inner.some
    THEN [s EXCEPT !.inner = None,
                   !.sent = << TransportCloseEv(c, ctx[c], now - inner[c].opened_at, TRUE,
                                                inner[c].rx_bytes, inner[c].tx_bytes) >>]
    ELSE s

\* AsyncWrite::shutdown
shutdown(c, res) == sense_err(c, res)

\* write_buf, had it turned a WouldBlock error into NotReady.
write_buf_swallow(c, res) ==
    LET s == sense_err(c, res) IN
    IF IsErr(s.ret) /\ s.ret.kind = "WouldBlock" THEN [s EXCEPT !.ret = NotReady]
    ELSE IF IsErr(s.ret) THEN s
    ELSE IF s.ret.tag = "NotReady" THEN [s EXCEPT !.ret = NotReady]
    ELSE [s EXCEPT !.inner = IF @.some THEN [@ EXCEPT !.tx_bytes = @ + s.ret.val] ELSE @,
                   !.ret = Ready(s.ret.val)]

\* write_buf, had it reported a stream that is not ready as zero bytes written.
write_buf_ready_zero(c, res) ==
    LET s == sense_err(c, res) IN
    IF IsErr(s.ret) THEN s
    ELSE IF s.ret.tag = "NotReady" THEN [s EXCEPT !.ret = Ready(0)]
    ELSE [s EXCEPT !.inner = IF @.some THEN [@ EXCEPT !.tx_bytes = @ + s.ret.val] ELSE @,
                   !.ret = Ready(s.ret.val)]

\* AsyncWrite::write_buf: try_ready! returns the error and NotReady as they are.
write_buf(c, res) ==
    LET s == sense_err(c, res) IN
    IF IsErr(s.ret) THEN s
    ELSE IF s.ret.tag = "NotReady" THEN [s EXCEPT !.ret = NotReady]
    ELSE [s EXCEPT !.inner = IF @.some THEN [@ EXCEPT !.tx_bytes = @ + s.ret.val] ELSE @,
                   !.ret = Ready(s.ret.val)]

\* poll_peek, had it counted the peeked bytes as read.
poll_peek_counts(c, res) ==
    LET s == sense_err(c, res) IN
    IF s.ret.tag # "Ready" THEN s
    ELSE [s EXCEPT !.inner = IF @.some THEN [@ EXCEPT !.rx_bytes = @ + s.ret.val] ELSE @]

\* Peek::poll_peek
poll_peek(c, res) == sense_err(c, res)

\* The bytes the stream itself reports as moved by a result of `op`.
RxOf(op, res) == IF op = "read" /\ res.tag = "Ok" THEN res.val ELSE 0
TxOf(op, res) ==
    IF (op = "write" /\ res.tag = "Ok") \/ (op = "write_buf" /\ res.tag = "Ready")
    THEN res.val ELSE 0

\* Call, had the Transports kept their counters in one shared place.
Call_shared(c, op, res, out) ==
    /\ tstate[c] = "live"
    /\ BytesMoved + RxOf(op, res) + TxOf(op, res) <= MaxBytes
    /\ inner' = [d \in Conns |->
                    IF d = c THEN out.inner
                    ELSE IF inner[d].some /\ out.inner.some
                         THEN [inner[d] EXCEPT !.rx_bytes = out.inner.rx_bytes,
                                               !.tx_bytes = out.inner.tx_bytes]
                         ELSE inner[d]]
    /\ events' = events \o out.sent
    /\ last' = Observe(
                [id |-> c, op |-> op, res |-> res, ret |-> out.ret, calls |-> out.calls,
                 sent |-> out.sent, before |-> inner[c], after |-> out.inner,
                 retry |-> (last.id = c /\ last.op = op /\ last.res = Err("WouldBlock")),
                 peeked |-> (last.id = c /\ last.op = "poll_peek"
                                /\ last.res.tag = "Ready" /\ last.res.val > 0),
                 at |-> now])
    /\ IF Closed(c)
       THEN UNCHANGED <<ioRx, ioTx>>
       ELSE /\ ioRx' = [ioRx EXCEPT ![c] = @ + RxOf(op, res)]
            /\ ioTx' = [ioTx EXCEPT ![c] = @ + TxOf(op, res)]
    /\ faulted' = IF IsFault(res) THEN faulted \cup {c} ELSE faulted
    /\ shutAt' = IF op = "shutdown" /\ res = Ready(0) /\ inner[c].some
                 THEN [shutAt EXCEPT ![c] = ioRx[c] + ioTx[c]]
                 ELSE shutAt
    /\ UNCHANGED <<connectCtx, connecting, tstate, ctx, now, builtAt>>

\* One call on the Transport of connection c: the stream returns `res` to the
\* wrapper, the wrapper's code produces `out`.
Call(c, op, res, out) ==
    /\ tstate[c] = "live"
    /\ BytesMoved + RxOf(op, res) + TxOf(op, res) <= MaxBytes
    /\ inner' = [inner EXCEPT ![c] = out.inner]
    /\ events' = events \o out.sent
    /\ last' = Observe(
                [id |-> c, op |-> op, res |-> res, ret |-> out.ret, calls |-> out.calls,
                 sent |-> out.sent, before |-> inner[c], after |-> out.inner,
                 retry |-> (last.id = c /\ last.op = op /\ last.res = Err("WouldBlock")),
                 peeked |-> (last.id = c /\ last.op = "poll_peek"
                                /\ last.res.tag = "Ready" /\ last.res.val > 0),
                 at |-> now])
    /\ IF Closed(c)
       THEN UNCHANGED <<ioRx, ioTx>>
       ELSE /\ ioRx' = [ioRx EXCEPT ![c] = @ + RxOf(op, res)]
            /\ ioTx' = [ioTx EXCEPT ![c] = @ + TxOf(op, res)]
    /\ faulted' = IF IsFault(res) THEN faulted \cup {c} ELSE faulted
    /\ shutAt' = IF op = "shutdown" /\ res = Ready(0) /\ inner[c].some
                 THEN [shutAt EXCEPT ![c] = ioRx[c] + ioTx[c]]
                 ELSE shutAt
    /\ UNCHANGED <<connectCtx, connecting, tstate, ctx, now, builtAt>>

Read(c) == \E res \in UsizeResults : Call(c, "read", res, read(c, res))
Write(c) == \E res \in UsizeResults : Call(c, "write", res, write(c, res))
Flush(c) == \E res \in UnitResults : Call(c, "flush", res, flush(c, res))
Shutdown(c) == \E res \in PollUnitResults : Call(c, "shutdown", res, shutdown(c, res))
WriteBuf(c) ==
    \E res \in PollUsizeResults(MaxBytes) : Call(c, "write_buf", res, write_buf(c, res))
PollPeek(c) ==
    \E res \in PollUsizeResults(MaxPeek) : Call(c, "poll_peek", res, poll_peek(c, res))

\* The owner drops the Transport.
Drop(c) ==
    /\ tstate[c] = "live"
    /\ LET out == drop(c) IN
        /\ inner' = [inner EXCEPT ![c] = out.inner]
        /\ events' = events \o out.sent
        /\ last' = Observe(
                    [id |-> c, op |-> "drop", res |-> Ok(0), ret |-> out.ret,
                     calls |-> out.calls, sent |-> out.sent, before |-> inner[c],
                     after |-> out.inner, retry |-> FALSE, peeked |-> FALSE, at |-> now])
    /\ tstate' = [tstate EXCEPT ![c] = "dropped"]
    /\ UNCHANGED <<connectCtx, connecting, ctx, now, ioRx, ioTx, faulted, builtAt, shutAt>>

\* A caller of Transport::open (the accept side) wraps a stream it holds,
\* with an Instant it took earlier.
Accept(c) ==
    /\ CanStart(c)
    /\ \E opened_at \in 0..now :
        LET t == open(c, opened_at, ServerCtx) IN
        /\ inner' = [inner EXCEPT ![c] = t.inner]
        /\ ctx' = [ctx EXCEPT ![c] = t.ctx]
        /\ events' = events \o t.sent
        /\ last' = Observe(
                    [id |-> c, op |-> "open", res |-> Ok(0), ret |-> Ok(0), calls |-> 0,
                     sent |-> t.sent, before |-> None, after |-> t.inner, retry |-> FALSE,
                     peeked |-> FALSE, at |-> now])
    /\ tstate' = [tstate EXCEPT ![c] = "live"]
    /\ builtAt' = [builtAt EXCEPT ![c] = now]
    /\ UNCHANGED <<connectCtx, connecting, now, ioRx, ioTx, faulted, shutAt>>

\* ------------------------------------------------------ Connect, Connecting
\* connect, had it announced the transport when the connect starts.
connect_eager(c) == [state |-> "pending", sent |-> << TransportOpenEv(c, connectCtx) >>]

\* Connect::connect: start the underlying connect; the Connecting holds clones
\* of the handle and of the context.  Nothing is sent.
connect(c) == [state |-> "pending", sent |-> <<>>]

Connect(c) ==
    /\ CanStart(c)
    /\ LET out == connect(c) IN
        /\ connecting' = [connecting EXCEPT ![c] = out.state]
        /\ events' = events \o out.sent
        /\ last' = Observe(
                    [id |-> c, op |-> "connect", res |-> Ok(0), ret |-> Ok(0), calls |-> 0,
                     sent |-> out.sent, before |-> None, after |-> None, retry |-> FALSE,
                     peeked |-> FALSE, at |-> now])
    /\ UNCHANGED <<connectCtx, tstate, inner, ctx, now, ioRx, ioTx, faulted, builtAt,
                   shutAt>>

\* poll, had it reported a failed connect as an unclean close.
poll_close_on_error(c, res) ==
    IF res.tag = "NotReady"
    THEN [state |-> "pending", transport |-> "none", inner |-> inner[c], ctx |-> ctx[c],
          sent |-> <<>>, ret |-> NotReady, calls |-> 1]
    ELSE IF res.tag = "Err"
    THEN [state |-> "failed", transport |-> "none", inner |-> inner[c], ctx |-> ctx[c],
          sent |-> << TransportCloseEv(c, connectCtx, 0, FALSE, 0, 0) >>,
          ret |-> res, calls |-> 1]
    ELSE LET cx == ClientNew(connectCtx.proxy, connectCtx.remote, connectCtx.metadata,
                             res.tls_status)
             trans == open(c, now, cx)
         IN [state |-> "resolved", transport |-> "live", inner |-> trans.inner,
             ctx |-> trans.ctx, sent |-> trans.sent,
             ret |-> [tag |-> "Ready", transport |-> c], calls |-> 1]

\* poll, had it kept the pre-connect tls_status instead of the stream's.
poll_stale_tls(c, res) ==
    IF res.tag = "NotReady"
    THEN [state |-> "pending", transport |-> "none", inner |-> inner[c], ctx |-> ctx[c],
          sent |-> <<>>, ret |-> NotReady, calls |-> 1]
    ELSE IF res.tag = "Err"
    THEN [state |-> "failed", transport |-> "none", inner |-> inner[c], ctx |-> ctx[c],
          sent |-> <<>>, ret |-> res, calls |-> 1]
    ELSE LET cx == ClientNew(connectCtx.proxy, connectCtx.remote, connectCtx.metadata,
                             connectCtx.tls_status)
             trans == open(c, now, cx)
         IN [state |-> "resolved", transport |-> "live", inner |-> trans.inner,
             ctx |-> trans.ctx, sent |-> trans.sent,
             ret |-> [tag |-> "Ready", transport |-> c], calls |-> 1]

\* Future::poll for Connecting: try_ready! returns NotReady and the error as
\* they are; on a ready stream build the context and open the Transport.
poll(c, res) ==
    IF res.tag = "NotReady"
    THEN [state |-> "pending", transport |-> "none", inner |-> inner[c], ctx |-> ctx[c],
          sent |-> <<>>, ret |-> NotReady, calls |-> 1]
    ELSE IF res.tag = "Err"
    THEN [state |-> "failed", transport |-> "none", inner |-> inner[c], ctx |-> ctx[c],
          sent |-> <<>>, ret |-> res, calls |-> 1]
    ELSE LET cx == ClientNew(connectCtx.proxy, connectCtx.remote, connectCtx.metadata,
                             res.tls_status)
             trans == open(c, now, cx)
         IN [state |-> "resolved", transport |-> "live", inner |-> trans.inner,
             ctx |-> trans.ctx, sent |-> trans.sent,
             ret |-> [tag |-> "Ready", transport |-> c], calls |-> 1]

Poll(c) ==
    /\ connecting[c] = "pending"
    /\ \E res \in ConnectResults :
        LET out == poll(c, res) IN
        /\ connecting' = [connecting EXCEPT ![c] = out.state]
        /\ tstate' = [tstate EXCEPT ![c] = out.transport]
        /\ inner' = [inner EXCEPT ![c] = out.inner]
        /\ ctx' = [ctx EXCEPT ![c] = out.ctx]
        /\ events' = events \o out.sent
        /\ last' = Observe(
                    [id |-> c, op |-> "poll", res |-> res, ret |-> out.ret,
                     calls |-> out.calls, sent |-> out.sent, before |-> inner[c],
                     after |-> out.inner, retry |-> FALSE, peeked |-> FALSE, at |-> now])
        /\ builtAt' = IF out.transport = "live" THEN [builtAt EXCEPT ![c] = now]
                      ELSE builtAt
    /\ UNCHANGED <<connectCtx, now, ioRx, ioTx, faulted, shutAt>>

\* Connecting has no Drop of its own: dropping it while pending drops its
\* fields and sends nothing.
drop_connecting(c) == [state |-> "cancelled", sent |-> <<>>]

Cancel(c) ==
    /\ connecting[c] = "pending"
    /\ LET out == drop_connecting(c) IN
        /\ connecting' = [connecting EXCEPT ![c] = out.state]
        /\ events' = events \o out.sent
        /\ last' = Observe(
                    [id |-> c, op |-> "cancel", res |-> Ok(0), ret |-> Ok(0), calls |-> 0,
                     sent |-> out.sent, before |-> None, after |-> None, retry |-> FALSE,
                     peeked |-> FALSE, at |-> now])
    /\ UNCHANGED <<connectCtx, tstate, inner, ctx, now, ioRx, ioTx, faulted, builtAt,
                   shutAt>>

\* ------------------------------------------------------------------- clock
Tick ==
    /\ now < MaxTime
    /\ now' = now + 1
    /\ UNCHANGED <<connectCtx, connecting, tstate, inner, ctx, events, last,
                   ioRx, ioTx, faulted, builtAt, shutAt>>

Calls ==
    \/ \E c \in Conns : Connect(c)
    \/ \E c \in Conns : Poll(c)
    \/ \E c \in Conns : Cancel(c)
    \/ \E c \in Conns : Accept(c)
    \/ \E c \in Conns : Read(c)
    \/ \E c \in Conns : Write(c)
    \/ \E c \in Conns : Flush(c)
    \/ \E c \in Conns : Shutdown(c)
    \/ \E c \in Conns : WriteBuf(c)
    \/ \E c \in Conns : PollPeek(c)
    \/ \E c \in Conns : Drop(c)

Next == Calls \/ Tick

Spec == Init /\ [][Next]_vars

\* Two connections, with the clock standing still and the calls not recorded.
SpecPair == InitPair /\ [][Calls]_vars

\* ------------------------------------------------------------------ claims
TransportOps == {"read", "write", "flush", "shutdown", "write_buf", "poll_peek"}

OpenEvents(c) ==
    { i \in 1..Len(events) : events[i].type = "TransportOpen" /\ events[i].id = c }
CloseEvents(c) ==
    { i \in 1..Len(events) : events[i].type = "TransportClose" /\ events[i].id = c }
EventsOf(c) == { i \in 1..Len(events) : events[i].id = c }

\* C1: a Transport never has two TransportClose events, and once it is
\* dropped it has exactly one, whatever calls came before the drop.
C1_ExactlyOneClose ==
    \A c \in Conns :
        /\ Cardinality(CloseEvents(c)) <= 1
        /\ tstate[c] = "dropped" => Cardinality(CloseEvents(c)) = 1

\* A Transport dropped after one of its calls returned a fault.
C1_Witness ==
    \E c \in Conns :
        tstate[c] = "dropped" /\ c \in faulted /\ last.op = "drop"
            /\ Cardinality(CloseEvents(c)) = 1

\* C2: the TransportClose of a Transport is clean exactly when none of the
\* calls on that Transport returned an error other than WouldBlock.
C2_CleanIffNoFault ==
    \A i \in 1..Len(events) :
        events[i].type = "TransportClose" =>
            (events[i].clean <=> events[i].id \notin faulted)

\* A Transport closed by a fault and then dropped: its close is not clean.
C2_Witness ==
    \E i \in 1..Len(events) :
        /\ events[i].type = "TransportClose" /\ ~events[i].clean
        /\ tstate[events[i].id] = "dropped"

\* C3: the TransportClose reports the bytes the stream reported as read and
\* as written by the successful calls made before the close.
C3_CloseReportsTotals ==
    \A i \in 1..Len(events) :
        events[i].type = "TransportClose" =>
            /\ events[i].rx_bytes = ioRx[events[i].id]
            /\ events[i].tx_bytes = ioTx[events[i].id]

\* A close triggered by a fault after several reads and writes.
C3_Witness ==
    \E i \in 1..Len(events) :
        /\ events[i].type = "TransportClose" /\ ~events[i].clean
        /\ events[i].rx_bytes + events[i].tx_bytes = MaxBytes
        /\ events[i].rx_bytes > 0

\* C4: a call that returns WouldBlock sends nothing and leaves `inner` (its
\* presence and both counters) as it was; the retry that then succeeds adds
\* its bytes once, so the counters match what the stream reported.
C4_WouldBlockChangesNothing ==
    /\ (last.op \in TransportOps /\ last.res = Err("WouldBlock")) =>
            last.sent = <<>> /\ last.after = last.before
    /\ (last.op \in TransportOps /\ last.retry /\ last.before.some
            /\ last.res.tag \in {"Ok", "Ready"}) =>
            /\ last.after.some
            /\ last.after.rx_bytes = last.before.rx_bytes + RxOf(last.op, last.res)
            /\ last.after.tx_bytes = last.before.tx_bytes + TxOf(last.op, last.res)
    /\ \A c \in Conns :
            inner[c].some => inner[c].rx_bytes = ioRx[c] /\ inner[c].tx_bytes = ioTx[c]

\* A read that returned WouldBlock is retried and reads a byte.
C4_Witness ==
    /\ last.op = "read" /\ last.retry /\ last.before.some
    /\ last.res = Ok(1)

\* C5: in the log of the handle every TransportClose of a Transport comes
\* after a TransportOpen of the same Transport.
C5_OpenBeforeClose ==
    \A i \in 1..Len(events) :
        events[i].type = "TransportClose" =>
            \E j \in 1..(i - 1) :
                events[j].type = "TransportOpen" /\ events[j].id = events[i].id

\* A Transport whose TransportClose has been sent.
C5_Witness == \E c \in Conns : CloseEvents(c) # {}

\* C6: every call on a Transport calls the stream once and returns what the
\* stream returned, also when `inner` is gone.
C6_ForwardsOnceUnchanged ==
    last.op \in TransportOps => last.calls = 1 /\ last.ret = last.res

\* A write_buf that returns WouldBlock after the close was sent.
C6_Witness ==
    /\ last.op = "write_buf" /\ last.res = Err("WouldBlock")
    /\ ~last.before.some /\ Closed(last.id)

\* C7: a fault returned while `inner` is there sends the TransportClose with
\* clean = false in that call; a fault returned when `inner` is gone and the
\* drop after a fault send nothing.
C7_FaultClosesOnce ==
    /\ (last.op \in TransportOps /\ IsFault(last.res)) =>
            /\ last.ret = last.res
            /\ ~last.after.some
            /\ IF last.before.some
               THEN /\ Len(last.sent) = 1
                    /\ last.sent[1].type = "TransportClose"
                    /\ last.sent[1].id = last.id
                    /\ ~last.sent[1].clean
                    /\ events[Len(events)] = last.sent[1]
               ELSE last.sent = <<>>
    /\ (last.op = "drop" /\ last.id \in faulted) => last.sent = <<>>
    /\ \A c \in faulted : Cardinality(CloseEvents(c)) = 1

\* The drop of a Transport that a fault had closed.
C7_Witness ==
    /\ last.op = "drop" /\ last.id \in faulted
    /\ \E i \in CloseEvents(last.id) : ~events[i].clean

\* C8: a poll that gets an error from the connect returns that error, makes
\* no Transport and sends nothing; a failed connection has no event.
C8_ConnectErrorSilent ==
    /\ (last.op = "poll" /\ last.res.tag = "Err") =>
            /\ last.ret = last.res
            /\ last.sent = <<>>
            /\ ~last.after.some
    /\ \A c \in Conns :
            connecting[c] = "failed" => tstate[c] = "none" /\ EventsOf(c) = {}

\* A connect that timed out.
C8_Witness ==
    /\ last.op = "poll" /\ last.res = Err("TimedOut")
    /\ connecting[last.id] = "failed"

\* C9: a poll that gets a ready stream returns a Transport with `inner`
\* present and both counters 0, has sent one TransportOpen, and the context
\* is made of the client context's proxy, remote and metadata and of the
\* stream's tls_status.
C9_ReadyOpensTransport ==
    (last.op = "poll" /\ last.res.tag = "Ready") =>
        LET c == last.id
            cx == ClientNew(connectCtx.proxy, connectCtx.remote, connectCtx.metadata,
                            last.res.tls_status)
        IN  /\ last.ret = [tag |-> "Ready", transport |-> c]
            /\ tstate[c] = "live"
            /\ last.after.some
            /\ last.after.rx_bytes = 0 /\ last.after.tx_bytes = 0
            /\ inner[c] = last.after
            /\ ctx[c] = cx
            /\ last.sent = << TransportOpenEv(c, cx) >>
            /\ Cardinality(OpenEvents(c)) = 1
            /\ EventsOf(c) = OpenEvents(c)

\* A connect that resolves with a tls_status other than the pre-connect one.
C9_Witness ==
    /\ last.op = "poll" /\ last.res.tag = "Ready"
    /\ last.res.tls_status # connectCtx.tls_status

\* C10: a Connecting that has not resolved has sent nothing: a poll that
\* returns NotReady leaves it pending, and dropping it sends nothing.
C10_PendingSilent ==
    /\ \A c \in Conns :
            connecting[c] \in {"pending", "cancelled"} =>
                tstate[c] = "none" /\ EventsOf(c) = {}
    /\ (last.op = "poll" /\ last.res.tag = "NotReady") =>
            /\ last.ret = NotReady
            /\ last.sent = <<>>
            /\ connecting[last.id] = "pending"
    /\ last.op = "cancel" => last.sent = <<>>

\* A Connecting dropped while pending.
C10_Witness ==
    /\ last.op = "cancel" /\ connecting[last.id] = "cancelled"
    /\ events = <<>>

\* The call recorded in `last` sent a TransportClose.
SentClose == last.sent # <<>> /\ last.sent[1].type = "TransportClose"

\* C11 as stated: the duration of a TransportClose is the time of the close
\* minus the time the Transport was built.
C11_DurationFromConstruction ==
    SentClose =>
        /\ last.sent[1].duration >= 0
        /\ last.sent[1].duration = last.at - builtAt[last.id]

\* C11, amended: the duration of a TransportClose is not negative and is the
\* time of the close minus the opened_at given to open, on the fault path
\* and on the drop path; for a Transport built by Connecting::poll that is
\* the time it was built.
C11_DurationFromOpenedAt ==
    /\ SentClose =>
            /\ last.sent[1].duration >= 0
            /\ last.before.some
            /\ last.sent[1].duration = last.at - last.before.opened_at
            /\ ctx[last.id].variant = "Client" =>
                    last.sent[1].duration = last.at - builtAt[last.id]
    /\ \A i \in 1..Len(events) :
            events[i].type = "TransportClose" => events[i].duration >= 0

\* A Transport opened with an earlier Instant is closed by a fault after the
\* clock has moved: the duration is longer than its life.
C11_Witness ==
    /\ SentClose /\ last.op \in TransportOps
    /\ last.sent[1].duration > 0
    /\ last.sent[1].duration # last.at - builtAt[last.id]

\* This step sends a TransportClose of connection c.
CloseSentFor(c) ==
    \E i \in (Len(events) + 1)..Len(events') :
        events'[i].type = "TransportClose" /\ events'[i].id = c

\* C12: once `inner` of a Transport is gone it stays gone, so it goes from
\* present to absent at most once; a TransportClose of the Transport is sent
\* in the steps that take `inner` and in no other step.
C12_TakenOnceWithClose ==
    [][\A c \in Conns :
          /\ (tstate[c] = "live" /\ inner[c].some /\ ~inner'[c].some) <=> CloseSentFor(c)
          /\ (tstate[c] # "none" /\ ~inner[c].some) => ~inner'[c].some]_vars

\* A live Transport whose `inner` was taken by a fault.
C12_Witness ==
    \E c \in Conns : tstate[c] = "live" /\ ~inner[c].some /\ Closed(c) /\ c \in faulted

\* C13: while `inner` is present a step never lowers a counter: a read that
\* returns Ok(n) adds n to rx_bytes only, a write that returns Ok(n) and a
\* write_buf that returns Ready(n) add n to tx_bytes only, and every other
\* step leaves both counters as they are.
C13_CountersStep ==
    [][\A c \in Conns :
          (inner[c].some /\ inner'[c].some) =>
              LET acted == last' # last /\ last'.id = c /\ last'.op \in TransportOps
                  rx == IF acted THEN RxOf(last'.op, last'.res) ELSE 0
                  tx == IF acted THEN TxOf(last'.op, last'.res) ELSE 0
              IN  /\ inner'[c].rx_bytes = inner[c].rx_bytes + rx
                  /\ inner'[c].tx_bytes = inner[c].tx_bytes + tx
                  /\ inner'[c].rx_bytes >= inner[c].rx_bytes
                  /\ inner'[c].tx_bytes >= inner[c].tx_bytes]_vars

\* A write_buf that wrote a byte after a byte had been read.
C13_Witness ==
    /\ last.op = "write_buf" /\ last.res = Ready(1)
    /\ last.before.some /\ last.before.rx_bytes > 0
    /\ last.after.tx_bytes = last.before.tx_bytes + 1

\* C14: flush, shutdown and poll_peek leave both counters as they are,
\* whatever they return (when they return a fault the close carries the
\* counters as they were); bytes reported by poll_peek are not counted, and
\* the read that then takes them is counted once.
C14_NoCountOps ==
    /\ (last.op \in {"flush", "shutdown", "poll_peek"} /\ last.before.some) =>
            IF last.after.some
            THEN /\ last.after.rx_bytes = last.before.rx_bytes
                 /\ last.after.tx_bytes = last.before.tx_bytes
            ELSE /\ SentClose
                 /\ last.sent[1].rx_bytes = last.before.rx_bytes
                 /\ last.sent[1].tx_bytes = last.before.tx_bytes
    /\ (last.op = "read" /\ last.peeked /\ last.before.some /\ last.res.tag = "Ok") =>
            /\ last.after.rx_bytes = last.before.rx_bytes + last.res.val
            /\ last.after.rx_bytes = ioRx[last.id]

\* A poll_peek reported a byte and the next call read it.
C14_Witness ==
    /\ last.op = "read" /\ last.peeked /\ last.before.some
    /\ last.res = Ok(1)

\* C15: a Transport has exactly one TransportOpen, sent by the call that
\* builds it and ahead of every other event of it; no call on the Transport
\* and no drop sends a TransportOpen.
C15_OneOpenAtConstruction ==
    /\ \A c \in Conns :
            /\ tstate[c] = "none" => OpenEvents(c) = {}
            /\ tstate[c] # "none" =>
                    /\ Cardinality(OpenEvents(c)) = 1
                    /\ \A i \in EventsOf(c) : \A j \in OpenEvents(c) : j <= i
    /\ (last.op \in TransportOps \cup {"drop"}) =>
            \A i \in 1..Len(last.sent) : last.sent[i].type # "TransportOpen"
    /\ (last.op \in {"open", "poll"} /\ last.after.some) =>
            /\ ~last.before.some
            /\ Len(last.sent) = 1
            /\ last.sent[1].type = "TransportOpen" /\ last.sent[1].id = last.id

\* A Transport that was used, closed by a fault and dropped.
C15_Witness ==
    \E c \in Conns :
        /\ tstate[c] = "dropped" /\ c \in faulted /\ ioRx[c] > 0
        /\ Cardinality(OpenEvents(c)) = 1

\* This step changes something of connection c: its Connecting, its
\* Transport, its events or the tally of what its stream reported.
Touched(c) ==
    \/ connecting'[c] # connecting[c]
    \/ tstate'[c] # tstate[c]
    \/ inner'[c] # inner[c]
    \/ ctx'[c] # ctx[c]
    \/ \E i \in (Len(events) + 1)..Len(events') : events'[i].id = c
    \/ ioRx'[c] # ioRx[c]
    \/ ioTx'[c] # ioTx[c]
    \/ (c \in faulted') # (c \in faulted)

\* What a connection shows, in terms of its own calls only.
OwnAccount(c) ==
    /\ tstate[c] = "live" => (inner[c].some <=> ~Closed(c))
    /\ inner[c].some => inner[c].rx_bytes = ioRx[c] /\ inner[c].tx_bytes = ioTx[c]
    /\ \A i \in CloseEvents(c) :
            /\ events[i].rx_bytes = ioRx[c]
            /\ events[i].tx_bytes = ioTx[c]
            /\ events[i].clean <=> c \notin faulted

\* C16: with two Transports used in any interleaving no step changes both
\* connections, and the counters, the presence of `inner` and the
\* TransportClose of each follow from the calls made on that one alone.
C16_Isolation ==
    /\ [](\A c \in Conns : OwnAccount(c))
    /\ [][\A c, d \in Conns : (c # d /\ Touched(c)) => ~Touched(d)]_vars

\* Two Transports from two connects: one closed by a fault, the other still
\* counting, with different totals.
C16_Witness ==
    \E c, d \in Conns :
        /\ c # d
        /\ connecting[c] = "resolved" /\ connecting[d] = "resolved"
        /\ tstate[c] = "live" /\ c \in faulted /\ Closed(c)
        /\ inner[d].some /\ inner[d].rx_bytes > 0
        /\ ioRx[c] # ioRx[d]

\* C17: after a fault has taken `inner`, a read, write or write_buf is still
\* passed to the stream and can succeed, but it sends nothing and leaves
\* `inner` absent: the one TransportClose keeps the totals of the calls made
\* before the fault, and no other event follows it.
C17_LateBytesUncounted ==
    /\ (last.op \in {"read", "write", "write_buf"} /\ ~last.before.some
            /\ last.res.tag \in {"Ok", "Ready"}) =>
            /\ last.calls = 1
            /\ last.ret = last.res
            /\ last.sent = <<>>
            /\ ~last.after.some
    /\ \A c \in faulted :
            /\ Cardinality(EventsOf(c)) = 2
            /\ \A i \in CloseEvents(c) :
                    /\ i = Len(events) \/ events[i + 1].id # c
                    /\ events[i].rx_bytes = ioRx[c]
                    /\ events[i].tx_bytes = ioTx[c]

\* A read of one byte after the TransportClose, which reported one byte read.
C17_Witness ==
    /\ last.op = "read" /\ last.res = Ok(1) /\ ~last.before.some
    /\ last.id \in faulted
    /\ \E i \in CloseEvents(last.id) : events[i].rx_bytes = 1

C19_NotReadyChangesNothing ==
    (last.op \in {"shutdown", "write_buf", "poll_peek"} /\ last.res = NotReady) =>
        /\ last.calls = 1
        /\ last.ret = NotReady
        /\ last.sent = <<>>
        /\ last.after = last.before
        /\ inner[last.id] = last.before
        /\ \A i \in CloseEvents(last.id) : ~last.before.some

\* A write_buf that found the stream not ready on a Transport that had
\* already counted bytes and still has its accounting.
C19_Witness ==
    /\ last.op = "write_buf" /\ last.res = NotReady
    /\ last.before.some /\ last.before.rx_bytes + last.before.tx_bytes > 0
    /\ inner[last.id].some

\* C20: from open on, the Transport's ctx is the one its TransportOpen
\* carried, and its TransportClose carries that same ctx, whether a fault or
\* the drop sent it.
C20_SameCtx ==
    \A c \in Conns :
        tstate[c] # "none" =>
            /\ \A j \in OpenEvents(c) : events[j].ctx = ctx[c]
            /\ \A i \in CloseEvents(c) :
                    /\ events[i].ctx = ctx[c]
                    /\ \E j \in OpenEvents(c) : j < i /\ events[j].ctx = events[i].ctx

\* Two Transports with different contexts, one closed by a fault and one by
\* its drop.
C20_Witness ==
    \E c, d \in Conns :
        /\ ctx[c] # ctx[d] /\ ctx[c] # NoCtx /\ ctx[d] # NoCtx
        /\ \E i \in CloseEvents(c) : ~events[i].clean
        /\ \E i \in CloseEvents(d) : events[i].clean

====
